---- MODULE Spec2Model ----
(***************************************************************************)
(* pr-manager: the event loop of src/src/main.rs (App::run and its         *)
(* handlers), the background tasks it spawns and the broadcast channel     *)
(* that carries their results back.                                        *)
(*                                                                         *)
(* Rust indices are 0-based, TLA+ sequences 1-based: prs[i] of the code is *)
(* prs[i + 1] here.  Option<T> is a sequence of length at most one: None   *)
(* is <<>> and Some(x) is <<x>>.  A String is a sequence of characters.    *)
(***************************************************************************)
EXTENDS Naturals, Sequences, FiniteSets, Bags

\* ------------------------------------------------------------ bounds
\* longest pull-request list a fetch returns
MaxPRs == 2
\* background tasks in flight plus events not yet received
MaxTasks == 2
\* longest message text of an Error event handed to the reconciler
MaxMsgLen == 2
\* longest text a failing rebase writes to stderr
MaxStderr == 1
\* longest list of checks of a pull request
MaxChecks == 3
\* tasks in flight plus events retained, beyond what the channel holds
MaxBehind == 1

\* ------------------------------------------------------------ values
None == <<>>

Some(x) == <<x>>

Mergeable == {"Ok", "Conflict", "Unknown"}

BranchNames == {"master", "dev"}

\* a commit hash as the remote returns it
Commits == {"c1", "c2"}

\* String::default(), what unwrap_or_default() yields for a failed lookup
DefaultString == ""

\* the pull requests the remote may list: the fields the loop reads
PullRequest ==
    { [number |-> 1, mergeable |-> "Ok", base_name |-> "master", base_commit |-> "c1"],
      [number |-> 2, mergeable |-> "Conflict", base_name |-> "master", base_commit |-> "c1"],
      [number |-> 3, mergeable |-> "Unknown", base_name |-> "dev", base_commit |-> "c2"],
      [number |-> 4, mergeable |-> "Ok", base_name |-> "dev", base_commit |-> "c2"] }

SeqsUpTo(S, n) == UNION { [1..k -> S] : k \in 0..n }

PRLists == SeqsUpTo(PullRequest, MaxPRs)

NL == "\n"

SP == " "

Chars == {"a", NL}

Messages == SeqsUpTo(Chars, MaxMsgLen)

Stderr == SeqsUpTo(Chars, MaxStderr)

\* AppEvent
FetchedPRs(list) == [type |-> "FetchedPRs", prs |-> list]

FetchedBranchCommit(branch, commit) ==
    [type |-> "FetchedBranchCommit", branch |-> branch, commit |-> commit]

Error(msg) == [type |-> "Error", msg |-> msg]

AppEvent ==
    { FetchedPRs(l) : l \in PRLists }
    \cup { FetchedBranchCommit(b, c) : b \in BranchNames, c \in Commits \cup {DefaultString} }
    \cup { Error(m) : m \in Messages }

\* KeyCode: the keys the dispatcher names, and one it does not
Keys == {"r", "R", "q", "Q", "Up", "Down", "Enter", "s", "other"}

VARIABLES
    prs,            \* state.prs
    branches,       \* state.branches: branch name -> commit
    error_message,  \* state.error_message
    done,           \* state.done
    selected,       \* table_state.selected()
    tasks,          \* the JoinSet: a bag of running tasks
    bus,            \* the broadcast channel: events sent and not yet received,
                    \* each with the task and the outcome that produced it
    pc,             \* where run() is
    rows,           \* handler specifications: the STATUS cells last drawn
    handled         \* handler specifications: the handler applied last

vars == <<prs, branches, error_message, done, selected, tasks, bus, pc, rows, handled>>

\* ------------------------------------------------------------ tasks
FetchPRsTask == [op |-> "fetch_prs", branch |-> "", number |-> 0]

FetchLastCommitTask(branch) == [op |-> "fetch_last_commit", branch |-> branch, number |-> 0]

RebaseTask(number) == [op |-> "rebase", branch |-> "", number |-> number]

OpenTask(number) == [op |-> "open", branch |-> "", number |-> number]

Outstanding(t, b) == BagCardinality(t) + Len(b)

spawn(t, task) == t (+) SetToBag({task})

\* what a task sent, kept with the event on the bus: the task and whether its
\* external call succeeded
Envelope(event, task, ok) == [event |-> event, from |-> task.op, ok |-> ok]

\* broadcast::channel(32): the values the channel retains for a receiver
Capacity == 32

\* what recv() returns to a receiver that fell behind: Err(RecvError::Lagged(_)),
\* once, ahead of the values the channel still retains
Lagged == [event |-> [type |-> "Lagged"], from |-> "channel", ok |-> FALSE]

LagPending(b) == b # <<>> /\ Head(b) = Lagged

Retained(b) == IF LagPending(b) THEN Tail(b) ELSE b

\* ------------------------------------------------------------ pure functions
\* row with an unknown base branch taken for a mismatch (unwrap_or(false))
row_unknown_is_behind(br, pr) ==
    LET commit == IF pr.base_name \in DOMAIN br
                  THEN pr.base_commit = br[pr.base_name]
                  ELSE FALSE
    IN  CASE pr.mergeable = "Ok" /\ commit -> "Up to date"
          [] pr.mergeable = "Ok" /\ ~commit -> "Behind"
          [] pr.mergeable = "Conflict" -> "Conflict"
          [] OTHER -> "Unknown"

\* App::row: the STATUS cell of one pull request
row(br, pr) ==
    LET commit == IF pr.base_name \in DOMAIN br
                  THEN Some(pr.base_commit = br[pr.base_name])
                  ELSE None
    IN  CASE pr.mergeable = "Ok" /\ commit = Some(TRUE) -> "Up to date"
          [] pr.mergeable = "Ok" /\ commit = Some(FALSE) -> "Behind"
          [] pr.mergeable = "Ok" /\ commit = None -> "Unsynced"
          [] pr.mergeable = "Conflict" -> "Conflict"
          [] OTHER -> "Unknown"

\* str::split(sep): the pieces between the separators, "" included
RECURSIVE split(_, _)
split(s, sep) ==
    IF s = <<>> THEN << <<>> >>
    ELSE LET rest == split(Tail(s), sep)
         IN  IF Head(s) = sep
             THEN << <<>> >> \o rest
             ELSE << <<Head(s)>> \o Head(rest) >> \o Tail(rest)

\* Itertools::join(sep)
RECURSIVE join(_, _)
join(parts, sep) ==
    IF parts = <<>> THEN <<>>
    ELSE IF Len(parts) = 1 THEN Head(parts)
    ELSE Head(parts) \o <<sep>> \o join(Tail(parts), sep)

\* an insert that evicts the entry it finds
insert_evicting(br, branch, commit) ==
    IF branch \in DOMAIN br
    THEN [b \in DOMAIN br \ {branch} |-> br[b]]
    ELSE [b \in DOMAIN br \cup {branch} |-> IF b = branch THEN commit ELSE br[b]]

\* an index that keeps the latest entry only
insert_latest_only(br, branch, commit) == [b \in {branch} |-> commit]

\* HashMap::insert
insert(br, branch, commit) ==
    [b \in DOMAIN br \cup {branch} |-> IF b = branch THEN commit ELSE br[b]]

\* Result: Ok(value) or Err
Ok(value) == [ok |-> TRUE, value |-> value]

Err == [ok |-> FALSE]

\* Result::unwrap_or_default
unwrap_or_default(result, default) == IF result.ok THEN result.value ELSE default

\* CheckConclusion, CheckStatus, CheckProgress
CheckConclusion == {"Success", "Failure", "Skipped", "Cancelled", "Unknown"}

CheckStatus == {"Completed", "InProgress", "Queued"}

CheckProgress == {"Pending", "Success", "Failure"}

\* CheckData: a check run, or a status context, which has no status of its own
CheckRun(conclusion, status) ==
    [typename |-> "CheckRun", conclusion |-> conclusion, status |-> status]

StatusContext(st) == [typename |-> "StatusContext", state |-> st]

CheckData ==
    { CheckRun(c, s) : c \in CheckConclusion, s \in CheckStatus }
        \cup { StatusContext(c) : c \in CheckConclusion }

\* PullRequest::checks
CheckLists == SeqsUpTo(CheckData, MaxChecks)

\* CheckData::verdict
verdict(check) ==
    IF check.typename = "CheckRun" THEN check.conclusion ELSE check.state

\* CheckData::state
state(check) ==
    IF check.typename = "CheckRun" THEN check.status ELSE "Completed"

\* a rollup that reports the first check still to end
RECURSIVE first_open_loop(_, _)
first_open_loop(checks, i) ==
    IF i > Len(checks)
    THEN "Success"
    ELSE IF verdict(checks[i]) = "Failure"
         THEN "Failure"
         ELSE IF state(checks[i]) \in {"InProgress", "Queued"}
              THEN "Pending"
              ELSE first_open_loop(checks, i + 1)

check_status_first_open(checks) == first_open_loop(checks, 1)

\* the loop of check_status from the i-th check on, with the count so far
RECURSIVE check_status_loop(_, _, _)
check_status_loop(checks, i, pending) ==
    IF i > Len(checks)
    THEN IF pending > 0 THEN "Pending" ELSE "Success"
    ELSE IF verdict(checks[i]) = "Failure"
         THEN "Failure"
         ELSE check_status_loop(checks, i + 1,
                  IF state(checks[i]) \in {"InProgress", "Queued"}
                  THEN pending + 1
                  ELSE pending)

\* PullRequest::check_status
check_status(checks) == check_status_loop(checks, 1, 0)

\* handle_app_event extending the list with the fetched one
handle_app_event_extending(event) ==
    CASE event.type = "FetchedPRs" ->
            /\ prs' = prs \o event.prs
            /\ UNCHANGED <<branches, error_message>>
      [] event.type = "FetchedBranchCommit" ->
            /\ branches' = [b \in DOMAIN branches \cup {event.branch} |->
                               IF b = event.branch THEN event.commit ELSE branches[b]]
            /\ UNCHANGED <<prs, error_message>>
      [] event.type = "Error" ->
            /\ error_message' = Some(join(split(event.msg, NL), SP))
            /\ UNCHANGED <<prs, branches>>

\* handle_app_event storing the message as it came
handle_app_event_verbatim(event) ==
    CASE event.type = "FetchedPRs" ->
            /\ prs' = event.prs
            /\ UNCHANGED <<branches, error_message>>
      [] event.type = "FetchedBranchCommit" ->
            /\ branches' = [b \in DOMAIN branches \cup {event.branch} |->
                               IF b = event.branch THEN event.commit ELSE branches[b]]
            /\ UNCHANGED <<prs, error_message>>
      [] event.type = "Error" ->
            /\ error_message' = Some(event.msg)
            /\ UNCHANGED <<prs, branches>>

\* handle_app_event taking a fetched list as the end of the trouble reported
handle_app_event_clearing(event) ==
    CASE event.type = "FetchedPRs" ->
            /\ prs' = event.prs
            /\ error_message' = None
            /\ UNCHANGED branches
      [] event.type = "FetchedBranchCommit" ->
            /\ branches' = [b \in DOMAIN branches \cup {event.branch} |->
                               IF b = event.branch THEN event.commit ELSE branches[b]]
            /\ UNCHANGED <<prs, error_message>>
      [] event.type = "Error" ->
            /\ error_message' = Some(join(split(event.msg, NL), SP))
            /\ UNCHANGED <<prs, branches>>

\* ------------------------------------------------------------ the reconciler
\* App::handle_app_event
handle_app_event(event) ==
    CASE event.type = "FetchedPRs" ->
            /\ prs' = event.prs
            /\ UNCHANGED <<branches, error_message>>
      [] event.type = "FetchedBranchCommit" ->
            /\ branches' = insert(branches, event.branch, event.commit)
            /\ UNCHANGED <<prs, error_message>>
      [] event.type = "Error" ->
            /\ error_message' = Some(join(split(event.msg, NL), SP))
            /\ UNCHANGED <<prs, branches>>

\* ------------------------------------------------------------ the task supervisor
\* a spawn is possible while the bound on outstanding work allows it
CanSpawn == Outstanding(tasks, bus) < MaxTasks

\* a refresh that asks for the last commit of "master" along with the list
fetch_prs_and_commit(t) ==
    spawn(spawn(t, FetchPRsTask), FetchLastCommitTask("master"))

\* App::fetch_prs: the JoinSet with the task spawned
fetch_prs(t) == spawn(t, FetchPRsTask)

\* an entry that leaves the index to be fetched later
fetch_last_commit_skipped(t, branch) == t

\* App::fetch_last_commit: the JoinSet with the task spawned
fetch_last_commit(t, branch) == spawn(t, FetchLastCommitTask(branch))

\* open_externally that also asks for the list again
open_externally_refreshing(sel) ==
    IF sel < Len(prs)
    THEN /\ CanSpawn
         /\ tasks' = spawn(spawn(tasks, OpenTask(prs[sel + 1].number)), FetchPRsTask)
         /\ pc' = pc
    ELSE /\ pc' = "panicked"
         /\ tasks' = tasks

\* App::open_externally: prs[selected] panics when selected is out of range
open_externally(sel) ==
    IF sel < Len(prs)
    THEN /\ CanSpawn
         /\ tasks' = spawn(tasks, OpenTask(prs[sel + 1].number))
         /\ pc' = pc
    ELSE /\ pc' = "panicked"
         /\ tasks' = tasks

\* rebase without the test of the verdict
rebase_any_verdict(sel) ==
    IF sel < Len(prs)
    THEN /\ CanSpawn
         /\ tasks' = spawn(tasks, RebaseTask(prs[sel + 1].number))
         /\ pc' = pc
    ELSE /\ pc' = "panicked"
         /\ tasks' = tasks

\* App::rebase: prs[selected] panics when selected is out of range
rebase(sel) ==
    IF sel < Len(prs)
    THEN IF prs[sel + 1].mergeable # "Ok"
         THEN UNCHANGED <<tasks, pc>>
         ELSE /\ CanSpawn
              /\ tasks' = spawn(tasks, RebaseTask(prs[sel + 1].number))
              /\ pc' = pc
    ELSE /\ pc' = "panicked"
         /\ tasks' = tasks

\* ------------------------------------------------------------ the input dispatcher
\* KeyCode::Up
KeyUp ==
    IF prs # <<>>
    THEN selected' = Some(IF selected = None THEN 0
                          ELSE IF selected[1] > 0 THEN selected[1] - 1 ELSE 0)
    ELSE selected' = selected

\* KeyCode::Down.  On an empty list with a selection, prs.len() - 1 underflows:
\* the build with overflow checks panics, the build without wraps to usize::MAX
\* and the selection moves on
KeyDown ==
    IF selected = None
    THEN selected' = Some(0) /\ pc' = pc
    ELSE IF prs = <<>>
    THEN \/ pc' = "panicked" /\ selected' = selected
         \/ selected[1] < MaxPRs /\ selected' = Some(selected[1] + 1) /\ pc' = pc
    ELSE /\ selected' = Some(IF selected[1] < Len(prs) - 1
                             THEN selected[1] + 1
                             ELSE Len(prs) - 1)
         /\ pc' = pc

\* App::handle_term_event for Event::Key
handle_term_event(key) ==
    CASE key \in {"r", "R"} ->
            /\ CanSpawn
            /\ tasks' = fetch_prs(tasks)
            /\ UNCHANGED <<done, selected, pc>>
      [] key \in {"q", "Q"} ->
            /\ done' = TRUE
            /\ UNCHANGED <<selected, tasks, pc>>
      [] key = "Up" ->
            /\ KeyUp
            /\ UNCHANGED <<done, tasks, pc>>
      [] key = "Down" ->
            /\ KeyDown
            /\ UNCHANGED <<done, tasks>>
      [] key = "Enter" ->
            /\ IF selected # None THEN open_externally(selected[1])
                                  ELSE UNCHANGED <<tasks, pc>>
            /\ UNCHANGED <<done, selected>>
      [] key = "s" ->
            /\ IF selected # None THEN rebase(selected[1])
                                  ELSE UNCHANGED <<tasks, pc>>
            /\ UNCHANGED <<done, selected>>
      [] OTHER ->
            UNCHANGED <<done, selected, tasks, pc>>

\* ------------------------------------------------------------ the render pipeline
\* draw, lines 139-144: one row per pull request
table(br, list) == [i \in 1..Len(list) |-> row(br, list[i])]

\* Table's render_stateful_widget: the widget may bring a selection past the last
\* row back to the last row and drop it on an empty table (it does neither when
\* the area is empty or in a release that leaves the state alone)
render_stateful_widget(n, sel) ==
    { sel,
      IF n = 0 THEN None
      ELSE IF sel # None /\ sel[1] >= n THEN Some(n - 1) ELSE sel }

\* App::draw: what it does to the App; a terminal error ends run().  The frame
\* itself goes to the terminal, which the loop never reads back
draw ==
    \/ /\ selected' \in render_stateful_widget(Len(prs), selected)
       /\ pc' = pc
    \/ /\ pc' = "failed"
       /\ selected' = selected

\* ------------------------------------------------------------ the scheduler
Init ==
    /\ prs = <<>>
    /\ branches = <<>>
    /\ error_message = None
    /\ done = FALSE
    /\ selected = None
    /\ tasks = EmptyBag
    /\ bus = <<>>
    /\ pc = "start"
    /\ rows = <<>>
    /\ handled = [src |-> "none"]

\* the handler specifications' variables, which the loop does not have
Untraced == UNCHANGED <<rows, handled>>

\* run(), up to the loop: the two fetches of entry
Enter ==
    /\ pc = "start"
    /\ tasks' = fetch_last_commit(fetch_prs(tasks), "master")
    /\ pc' = "running"
    /\ UNCHANGED <<prs, branches, error_message, done, selected, bus>>
    /\ Untraced

\* a loop that never tests done
Looping_forever == pc = "running"

\* the loop test: an iteration starts only while done is false
Looping == pc = "running" /\ ~done

\* refresh.tick()
Draw ==
    /\ Looping
    /\ draw
    /\ UNCHANGED <<prs, branches, error_message, done, tasks, bus>>
    /\ Untraced

\* auto_update.tick()
AutoUpdate ==
    /\ Looping
    /\ CanSpawn
    /\ tasks' = fetch_prs(tasks)
    /\ UNCHANGED <<prs, branches, error_message, done, selected, bus, pc>>
    /\ Untraced

\* events.next(): a key
TermKey ==
    /\ Looping
    /\ \E key \in Keys : handle_term_event(key)
    /\ UNCHANGED <<prs, branches, error_message, bus>>
    /\ Untraced

\* events.next(): the quit key
Quit ==
    /\ Looping
    /\ handle_term_event("q")
    /\ UNCHANGED <<prs, branches, error_message, bus>>
    /\ Untraced

\* events.next(): a terminal event that is no key (resize, mouse, focus) changes
\* nothing, and the loop goes round
TermOther ==
    /\ Looping
    /\ UNCHANGED vars

\* a receiver that stays behind once it lagged
recv_stuck_on_lag ==
    /\ bus # <<>>
    /\ IF Head(bus) = Lagged
       THEN UNCHANGED <<prs, branches, error_message, bus>>
       ELSE handle_app_event(Head(bus).event) /\ bus' = Tail(bus)

\* Ok(app_event) = self.receiver.recv() => self.handle_app_event(app_event): an
\* Err(Lagged) does not match, nothing is handled and the loop goes round, with
\* the receiver moved to the oldest value retained
recv ==
    /\ bus # <<>>
    /\ IF Head(bus) = Lagged
       THEN UNCHANGED <<prs, branches, error_message>>
       ELSE handle_app_event(Head(bus).event)
    /\ bus' = Tail(bus)

\* receiver.recv()
Recv ==
    /\ Looping
    /\ recv
    /\ UNCHANGED <<done, selected, tasks, pc>>
    /\ Untraced

\* a run() that waits for its tasks before it returns
Return_joining ==
    /\ pc = "running"
    /\ done
    /\ tasks = EmptyBag
    /\ pc' = "returned"
    /\ UNCHANGED <<prs, branches, error_message, done, selected, tasks, bus>>
    /\ Untraced

\* the loop test fails: run() returns, the tasks and the channel are dropped as they are
Return ==
    /\ pc = "running"
    /\ done
    /\ pc' = "returned"
    /\ UNCHANGED <<prs, branches, error_message, done, selected, tasks, bus>>
    /\ Untraced

\* ------------------------------------------------------------ the background tasks
Running(task) == pc = "running" /\ BagIn(task, tasks)

finish(task) == tasks' = tasks (-) SetToBag({task})

\* a sender that repeats what it sends
send_twice(event, task, ok) ==
    bus' = Append(Append(bus, Envelope(event, task, ok)), Envelope(event, task, ok))

\* Sender::send never waits: on a full channel the oldest value is overwritten
\* and the receiver is left behind
send(event, task, ok) ==
    bus' = IF Len(Retained(bus)) < Capacity
           THEN Append(bus, Envelope(event, task, ok))
           ELSE <<Lagged>> \o Append(Tail(Retained(bus)), Envelope(event, task, ok))

LoopUnchanged == UNCHANGED <<prs, branches, error_message, done, selected, pc, rows, handled>>

\* the task of App::fetch_prs with the free function fetch_prs
FetchPRsDone ==
    /\ Running(FetchPRsTask)
    /\ \E result \in { Ok(l) : l \in PRLists } \cup {Err} :
          send(FetchedPRs(unwrap_or_default(result, <<>>)), FetchPRsTask, result.ok)
    /\ finish(FetchPRsTask)
    /\ LoopUnchanged

\* the task of App::fetch_last_commit with fetch_last_branch_commit
FetchLastCommitDone ==
    /\ \E task \in BagToSet(tasks) :
          /\ task.op = "fetch_last_commit"
          /\ Running(task)
          /\ \E result \in { Ok(c) : c \in Commits } \cup {Err} :
                send(FetchedBranchCommit(task.branch, unwrap_or_default(result, DefaultString)),
                     task, result.ok)
          /\ finish(task)
    /\ LoopUnchanged

\* the task of App::rebase: silent on success, an Error event otherwise
RebaseDone ==
    /\ \E task \in BagToSet(tasks) :
          /\ task.op = "rebase"
          /\ Running(task)
          /\ \/ UNCHANGED bus
             \/ \E msg \in Stderr : send(Error(msg), task, FALSE)
          /\ finish(task)
    /\ LoopUnchanged

\* the task of App::open_externally: the outcome is discarded
OpenDone ==
    /\ \E task \in BagToSet(tasks) :
          /\ task.op = "open"
          /\ Running(task)
          /\ finish(task)
    /\ UNCHANGED bus
    /\ LoopUnchanged

Next ==
    \/ Enter
    \/ Draw
    \/ AutoUpdate
    \/ TermKey
    \/ TermOther
    \/ Recv
    \/ Return
    \/ FetchPRsDone
    \/ FetchLastCommitDone
    \/ RebaseDone
    \/ OpenDone

Spec == Init /\ [][Next]_vars

\* ------------------------------------------------------------ handler specifications
\* Each handler on its own, from any state the loop can hand it, with the handler
\* applied last (and what it was applied to) kept in `handled`.

\* the selections a table state can hold
Selections == {None} \cup { Some(i) : i \in 0..MaxPRs }

\* the branch-commit indices over the branch names
Indices ==
    UNION { [D -> Commits \cup {DefaultString}] : D \in SUBSET BranchNames }

AppState == <<prs, branches, error_message>>

\* the reconciler: any sequence of events applied to the state of construction
InitReconcile ==
    /\ prs = <<>>
    /\ branches = <<>>
    /\ error_message = None
    /\ done = FALSE
    /\ selected = None
    /\ tasks = EmptyBag
    /\ bus = <<>>
    /\ pc = "running"
    /\ rows = <<>>
    /\ handled = [src |-> "none"]

\* whether the event finds something else in the place it writes to
Overwrites(event) ==
    CASE event.type = "FetchedPRs" -> prs # <<>> /\ prs # event.prs
      [] event.type = "FetchedBranchCommit" ->
            event.branch \in DOMAIN branches /\ branches[event.branch] # event.commit
      [] event.type = "Error" -> error_message # None

\* one event applied; `again` says that it is the event applied just before
Apply ==
    /\ Looping
    /\ \E event \in AppEvent :
          /\ handle_app_event(event)
          /\ handled' = [src |-> "receiver",
                         event |-> event,
                         over |-> Overwrites(event),
                         again |-> (handled.src = "receiver" /\ handled.event = event)]
    /\ UNCHANGED <<done, selected, tasks, bus, pc, rows>>

SpecReconcile == InitReconcile /\ [][Apply]_vars

\* the render pipeline: a draw of any list against any index
InitRender ==
    /\ prs \in PRLists
    /\ branches \in Indices
    /\ error_message = None
    /\ done = FALSE
    /\ selected \in Selections
    /\ tasks = EmptyBag
    /\ bus = <<>>
    /\ pc = "running"
    /\ rows = <<>>
    /\ handled = [src |-> "none"]

Render ==
    /\ Looping
    /\ draw
    /\ rows' = IF pc' = "failed" THEN rows ELSE table(branches, prs)
    /\ handled' = [src |-> "refresh"]
    /\ UNCHANGED <<prs, branches, error_message, done, tasks, bus>>

SpecRender == InitRender /\ [][Render]_vars

\* the input dispatcher: any keys pressed on any list with any selection
InitDispatch ==
    /\ prs \in PRLists
    /\ branches = <<>>
    /\ error_message = None
    /\ done = FALSE
    /\ selected \in Selections
    /\ tasks = EmptyBag
    /\ bus = <<>>
    /\ pc = "running"
    /\ rows = <<>>
    /\ handled = [src |-> "none"]

Press ==
    /\ Looping
    /\ \E key \in Keys :
          /\ handle_term_event(key)
          /\ handled' = [src |-> "events", key |-> key]
    /\ UNCHANGED <<prs, branches, error_message, bus, rows>>

PressOther ==
    /\ Looping
    /\ handled' = [src |-> "events", key |-> "nonkey"]
    /\ UNCHANGED <<prs, branches, error_message, done, selected, tasks, bus, pc, rows>>

NextDispatch ==
    \/ Press
    \/ PressOther

SpecDispatch == InitDispatch /\ [][NextDispatch]_vars

\* the rollup of the checks: any list of checks, and check_status applied to it
InitChecks ==
    /\ prs = <<>>
    /\ branches = <<>>
    /\ error_message = None
    /\ done = FALSE
    /\ selected = None
    /\ tasks = EmptyBag
    /\ bus = <<>>
    /\ pc = "running"
    /\ rows = <<>>
    /\ handled \in { [src |-> "checks", checks |-> checks, progress |-> None] :
                        checks \in CheckLists }

Rollup ==
    /\ handled.src = "checks"
    /\ handled.progress = None
    /\ handled' = [handled EXCEPT !.progress = Some(check_status(handled.checks))]
    /\ UNCHANGED <<prs, branches, error_message, done, selected, tasks, bus, pc, rows>>

SpecChecks == InitChecks /\ [][Rollup]_vars

\* the loop with tasks that never end: the fetch of the last commit of "master"
\* hangs, alone or with a fetch of the list, whatever list and selection the loop
\* has by then; nothing is sent, so the bus stays empty.  The quit key is pressed,
\* and the sources are scheduled fairly.
HungTasks ==
    { SetToBag({FetchLastCommitTask("master")}),
      SetToBag({FetchLastCommitTask("master"), FetchPRsTask}) }

InitHung ==
    /\ prs \in PRLists
    /\ branches = <<>>
    /\ error_message = None
    /\ done = FALSE
    /\ selected \in Selections
    /\ tasks \in HungTasks
    /\ bus = <<>>
    /\ pc = "running"
    /\ rows = <<>>
    /\ handled = [src |-> "none"]

NextHung ==
    \/ Draw
    \/ AutoUpdate
    \/ TermKey
    \/ TermOther
    \/ Return

SpecHung ==
    InitHung /\ [][NextHung]_vars /\ WF_vars(Quit) /\ WF_vars(Return)

\* the bus under load: the remote is down, so every fetch of the list comes back
\* empty, and fetches are asked for faster than their events are received.  The
\* fetches of entry have failed and been applied.  `handled` keeps whether a lag
\* has been observed, and follows one event sent after that: its place among the
\* retained ones, and what became of it.
InitOverflow ==
    /\ prs = <<>>
    /\ branches = [b \in {"master"} |-> DefaultString]
    /\ error_message = None
    /\ done = FALSE
    /\ selected = None
    /\ tasks = EmptyBag
    /\ bus = <<>>
    /\ pc = "running"
    /\ rows = <<>>
    /\ handled = [src |-> "bus", lagged |-> FALSE, mark |-> 0, fate |-> "none"]

\* the followed event moves one place up, or leaves as `fate` says
Advance(fate) ==
    IF handled.fate # "sent"
    THEN handled
    ELSE IF handled.mark = 1
         THEN [handled EXCEPT !.mark = 0, !.fate = fate]
         ELSE [handled EXCEPT !.mark = handled.mark - 1]

\* auto_update.tick() or the r key: one more fetch of the list
Refresh ==
    /\ Looping
    /\ Outstanding(tasks, Retained(bus)) < Capacity + MaxBehind
    /\ tasks' = fetch_prs(tasks)
    /\ UNCHANGED <<prs, branches, error_message, done, selected, bus, pc, rows, handled>>

\* the task of App::fetch_prs, the remote being down
FetchPRsFailed ==
    /\ Running(FetchPRsTask)
    /\ send(FetchedPRs(unwrap_or_default(Err, <<>>)), FetchPRsTask, FALSE)
    /\ finish(FetchPRsTask)
    /\ handled' \in
          IF Len(Retained(bus)) = Capacity
          THEN {Advance("overwritten")}
          ELSE IF handled.fate = "none" /\ handled.lagged
               THEN {handled,
                     [handled EXCEPT !.mark = Len(Retained(bus)) + 1, !.fate = "sent"]}
               ELSE {handled}
    /\ UNCHANGED <<prs, branches, error_message, done, selected, pc, rows>>

\* receiver.recv()
Receive ==
    /\ Looping
    /\ recv
    /\ handled' = IF LagPending(bus)
                  THEN [handled EXCEPT !.lagged = TRUE]
                  ELSE Advance("received")
    /\ UNCHANGED <<done, selected, tasks, pc, rows>>

NextOverflow ==
    \/ Refresh
    \/ FetchPRsFailed
    \/ Receive
    \/ Quit
    \/ Return

SpecOverflow ==
    InitOverflow /\ [][NextOverflow]_vars /\ WF_vars(Receive)

\* ------------------------------------------------------------ claims

\* C1: the status a draw shows for a pull request is Conflict or Unknown for these
\* verdicts whatever the index holds, and for the verdict Ok it is Unsynced when the
\* base branch is absent from the index, Up to date when the index holds the pull
\* request's base commit for it and Behind when it holds another; an absent base
\* branch is never shown Up to date or Behind.
C1_RowStatus ==
    (handled.src = "refresh" /\ pc = "running") =>
        /\ Len(rows) = Len(prs)
        /\ \A i \in 1..Len(prs) :
              LET pr == prs[i]
                  known == pr.base_name \in DOMAIN branches
              IN  /\ pr.mergeable = "Conflict" => rows[i] = "Conflict"
                  /\ pr.mergeable = "Unknown" => rows[i] = "Unknown"
                  /\ (pr.mergeable = "Ok" /\ ~known) => rows[i] = "Unsynced"
                  /\ (pr.mergeable = "Ok" /\ known /\ branches[pr.base_name] = pr.base_commit)
                        => rows[i] = "Up to date"
                  /\ (pr.mergeable = "Ok" /\ known /\ branches[pr.base_name] # pr.base_commit)
                        => rows[i] = "Behind"
                  /\ ~known => rows[i] \notin {"Up to date", "Behind"}

C1_Witness ==
    /\ handled.src = "refresh"
    /\ pc = "running"
    /\ Len(rows) = 2
    /\ prs[1].mergeable = "Ok"
    /\ prs[1].base_name \notin DOMAIN branches
    /\ rows[1] = "Unsynced"
    /\ prs[2].mergeable = "Conflict"
    /\ prs[2].base_name \notin DOMAIN branches
    /\ rows[2] = "Conflict"

\* C2: when a received list is shorter than the one it replaces, the selection that
\* was valid before is none or a valid index of the new list right after the
\* replacement, the state in which the next draw or key handler runs.
C2_SelectionClamped ==
    [][(Len(prs') < Len(prs) /\ selected # None /\ selected[1] < Len(prs))
          => (selected' = None \/ selected'[1] < Len(prs'))]_vars

\* C3: a fetch task whose external call failed sends an Error event and no
\* FetchedPRs or FetchedBranchCommit event.
C3_FailureReported ==
    \A i \in 1..Len(bus) :
        (bus[i].from \in {"fetch_prs", "fetch_last_commit"} /\ ~bus[i].ok)
            => bus[i].event.type = "Error"

\* C4: receiving what a failed pull-request fetch sent leaves the list as it was.
C4_FailedFetchKeepsList ==
    [][(bus # <<>> /\ bus' = Tail(bus) /\ Head(bus).from = "fetch_prs" /\ ~Head(bus).ok)
          => prs' = prs]_vars

\* C5: after FetchedPRs(B) is applied the list is exactly B, whatever list an
\* earlier FetchedPRs(A) left there.
C5_LastWriteWins ==
    (handled.src = "receiver" /\ handled.event.type = "FetchedPRs") =>
        /\ prs = handled.event.prs
        /\ Len(prs) = Len(handled.event.prs)
        /\ \A i \in 1..Len(prs) : prs[i] = handled.event.prs[i]

C5_Witness ==
    /\ handled.src = "receiver"
    /\ handled.event.type = "FetchedPRs"
    /\ handled.over
    /\ Len(handled.event.prs) = 1
    /\ prs = handled.event.prs

\* C6: the key s on a selected pull request whose verdict is not Ok changes nothing:
\* no task, no event, the state as it was; and a rebase task appears only by a step
\* taken with a selected pull request of verdict Ok.
C6_RebasePrecondition ==
    [][/\ (/\ handled'.src = "events"
           /\ handled'.key = "s"
           /\ selected # None
           /\ selected[1] < Len(prs)
           /\ prs[selected[1] + 1].mergeable # "Ok")
          => UNCHANGED <<prs, branches, error_message, done, selected, tasks, bus, pc>>
       /\ (\E n \in { pr.number : pr \in PullRequest } :
              CopiesIn(RebaseTask(n), tasks') > CopiesIn(RebaseTask(n), tasks))
          => /\ selected # None
             /\ selected[1] < Len(prs)
             /\ prs[selected[1] + 1].mergeable = "Ok"]_vars

C6_Witness ==
    /\ handled.src = "events"
    /\ handled.key = "s"
    /\ selected # None
    /\ selected[1] < Len(prs)
    /\ prs[selected[1] + 1].mergeable = "Unknown"
    /\ tasks = EmptyBag
    /\ pc = "running"

\* C7: Up and Down leave the selection as it is on an empty list; on a list of n > 0
\* pull requests they leave it in 0..n-1, Up at 0 stays at 0, Down at n-1 stays at
\* n-1, and from any other valid index they move it by exactly one.
C7_SelectionMoves ==
    [][(handled'.src = "events" /\ handled'.key \in {"Up", "Down"}) =>
          LET n == Len(prs)
              up == handled'.key = "Up"
          IN  IF n = 0
              THEN selected' = selected
              ELSE /\ selected' # None
                   /\ selected'[1] <= n - 1
                   /\ (up /\ selected = Some(0)) => selected' = Some(0)
                   /\ (~up /\ selected = Some(n - 1)) => selected' = Some(n - 1)
                   /\ (up /\ selected # None /\ selected[1] > 0 /\ selected[1] < n)
                         => selected' = Some(selected[1] - 1)
                   /\ (~up /\ selected # None /\ selected[1] < n - 1)
                         => selected' = Some(selected[1] + 1)]_vars

\* C8: after an Error event is applied the message is the event's text with every
\* newline turned into one space, whatever message was there before, and holds no
\* newline.
C8_ErrorMessage ==
    (handled.src = "receiver" /\ handled.event.type = "Error") =>
        LET msg == handled.event.msg
        IN  /\ error_message = Some([i \in 1..Len(msg) |-> IF msg[i] = NL THEN SP ELSE msg[i]])
            /\ \A i \in 1..Len(error_message[1]) : error_message[1][i] # NL

C8_Witness ==
    /\ handled.src = "receiver"
    /\ handled.event.type = "Error"
    /\ handled.event.msg = <<NL, "a">>
    /\ handled.over
    /\ error_message = Some(<<SP, "a">>)

\* C9: once done is set no handler runs: the state of the loop stays as it is, no
\* task is spawned, no event is received, and the only move of run() is to return,
\* which it can do whatever is still in flight or on the bus.
C9_Termination ==
    [][done =>
          /\ UNCHANGED <<prs, branches, error_message, done, selected, rows, handled>>
          /\ Len(bus') >= Len(bus)
          /\ SubSeq(bus', 1, Len(bus)) = bus
          /\ tasks' \sqsubseteq tasks
          /\ pc' \in {pc, "returned"}
          /\ pc = "running" => ENABLED Return]_vars

C9_Witness ==
    /\ pc = "returned"
    /\ done
    /\ tasks # EmptyBag
    /\ bus # <<>>

\* C10: applying the same FetchedBranchCommit a second time leaves the index, and
\* the whole state, as the first application left them.
C10_UpsertIdempotent ==
    [][(/\ handled'.src = "receiver"
        /\ handled'.event.type = "FetchedBranchCommit"
        /\ handled'.again)
          => /\ branches' = branches
             /\ branches'[handled'.event.branch] = handled'.event.commit
             /\ UNCHANGED <<prs, error_message, done, selected, tasks, bus, pc>>]_vars

C10_Witness ==
    /\ handled.src = "receiver"
    /\ handled.event.type = "FetchedBranchCommit"
    /\ handled.again
    /\ DOMAIN branches = BranchNames
    /\ branches[handled.event.branch] = "c2"

\* C11: run() starts from an empty list, an empty index, no message, no selection
\* and done false, with nothing spawned or sent; its first step spawns exactly one
\* fetch of the pull requests and exactly one fetch of the last commit of "master",
\* changes nothing else, and only then is the loop (and so any source) entered.
C11_LoopEntry ==
    [][pc = "start" =>
          /\ prs = <<>> /\ branches = <<>> /\ error_message = None
          /\ selected = None /\ ~done
          /\ tasks = EmptyBag /\ bus = <<>>
          /\ pc' = "running"
          /\ tasks' = SetToBag({FetchPRsTask, FetchLastCommitTask("master")})
          /\ UNCHANGED <<prs, branches, error_message, selected, done, bus>>]_vars

C11_Witness ==
    /\ pc = "running"
    /\ tasks = SetToBag({FetchPRsTask, FetchLastCommitTask("master")})
    /\ prs = <<>> /\ branches = <<>> /\ error_message = None
    /\ selected = None /\ ~done /\ bus = <<>>

\* C12: handling a key always completes: no key handler indexes the list out of
\* range or underflows len - 1, in any state the loop can reach.
C12_DispatcherTotal == pc # "panicked"

\* what a task of its kind sends in the step it ends with
C13_Sent(task) ==
    LET e == bus'[Len(bus')]
        one == /\ Len(bus') = Len(bus) + 1
               /\ SubSeq(bus', 1, Len(bus)) = bus
               /\ e.from = task.op
    IN  CASE task.op = "fetch_prs" -> one /\ e.event.type = "FetchedPRs"
          [] task.op = "fetch_last_commit" ->
                /\ one
                /\ e.event.type = "FetchedBranchCommit"
                /\ e.event.branch = task.branch
          [] task.op = "open" -> bus' = bus
          [] task.op = "rebase" ->
                \/ bus' = bus
                \/ one /\ e.event.type = "Error" /\ ~e.ok

C14_ReconcilerFrame ==
    [][handled'.src = "receiver" =>
          LET event == handled'.event
          IN  /\ UNCHANGED <<done, selected, tasks, bus, pc>>
              /\ event.type = "FetchedPRs" => UNCHANGED <<branches, error_message>>
              /\ event.type = "FetchedBranchCommit" =>
                    /\ UNCHANGED <<prs, error_message>>
                    /\ DOMAIN branches' \ {event.branch} = DOMAIN branches \ {event.branch}
                    /\ \A b \in DOMAIN branches \ {event.branch} : branches'[b] = branches[b]
              /\ event.type = "Error" => UNCHANGED <<prs, branches>>]_vars

C14_Witness ==
    /\ handled.src = "receiver"
    /\ handled.event = FetchedBranchCommit("dev", "c2")
    /\ branches = [b \in BranchNames |-> IF b = "dev" THEN "c2" ELSE "c1"]
    /\ Len(prs) = 2
    /\ error_message # None

\* C15: a terminal event never changes the list, the index or the message, and
\* sends nothing; an event that is no key, or a key that is not bound, changes
\* nothing; the selection changes on Up and Down only, done on q and Q only; and
\* the tasks stay as they are or get exactly one more: a fetch of the pull requests
\* on r or R, an open of the selected pull request on Enter, a rebase of the
\* selected pull request, whose verdict is Ok, on s.
C15_InputFrame ==
    [][handled'.src = "events" =>
          LET key == handled'.key
          IN  /\ UNCHANGED <<prs, branches, error_message, bus>>
              /\ key \in {"other", "nonkey"} => UNCHANGED <<done, selected, tasks, pc>>
              /\ selected' # selected => key \in {"Up", "Down"}
              /\ done' # done => key \in {"q", "Q"} /\ done'
              /\ \/ tasks' = tasks
                 \/ key \in {"r", "R"} /\ tasks' = tasks (+) SetToBag({FetchPRsTask})
                 \/ /\ key = "Enter"
                    /\ selected # None
                    /\ selected[1] < Len(prs)
                    /\ tasks' = tasks (+) SetToBag({OpenTask(prs[selected[1] + 1].number)})
                 \/ /\ key = "s"
                    /\ selected # None
                    /\ selected[1] < Len(prs)
                    /\ prs[selected[1] + 1].mergeable = "Ok"
                    /\ tasks' = tasks (+) SetToBag({RebaseTask(prs[selected[1] + 1].number)})]_vars

C15_Witness ==
    /\ handled.src = "events"
    /\ handled.key = "Enter"
    /\ selected = Some(1)
    /\ Len(prs) = 2
    /\ tasks = SetToBag({OpenTask(prs[2].number), FetchPRsTask})
    /\ ~done

\* C16: a send to the full channel overwrites the oldest event retained and leaves
\* the receiver behind; the receiver observes the lag once, in a step that changes
\* nothing else and keeps every retained event; the loop goes on and can receive
\* whenever the bus holds something; and an event sent after a lag was observed is
\* received and applied while done is false, unless a further overflow overwrites
\* it in turn.
C16_OverflowNotFatal ==
    /\ [][/\ (Len(Retained(bus)) = Capacity /\ tasks' # tasks /\ bus' # bus) =>
                /\ LagPending(bus')
                /\ Len(Retained(bus')) = Capacity
                /\ SubSeq(Retained(bus'), 1, Capacity - 1) = Tail(Retained(bus))
                /\ UNCHANGED <<prs, branches, error_message, done, selected, pc>>
          /\ (LagPending(bus) /\ ~LagPending(bus')) =>
                /\ bus' = Retained(bus)
                /\ UNCHANGED <<prs, branches, error_message, done, selected, tasks, pc>>]_vars
    /\ []((Looping /\ bus # <<>>) => ENABLED Receive)
    /\ [](handled.lagged => pc # "failed" /\ pc # "panicked")
    /\ (LagPending(bus) /\ ~done) ~> (~LagPending(bus) \/ done)
    /\ (handled.fate = "sent" /\ ~done) ~>
           (handled.fate \in {"received", "overwritten"} \/ done)

\* C16, as stated: every event sent after a lag was observed is received and
\* applied while done is false.
C16_EveryLaterEventReceived ==
    (handled.fate = "sent" /\ ~done) ~> (handled.fate = "received" \/ done)

C16_Witness ==
    /\ handled.src = "bus"
    /\ handled.lagged
    /\ handled.fate = "received"
    /\ pc = "running"
    /\ ~done
    /\ bus # <<>>

\* C17: with tasks in flight that never end, the refresh tick and the terminal
\* input stay ready while the loop runs and done is false; the quit key that is
\* pressed is handled, unless run() has ended before on a terminal error or a
\* panic; and run() ends, with its tasks still in flight.
C17_NeverBlocked ==
    /\ [](Looping => (tasks # EmptyBag /\ ENABLED Draw /\ ENABLED Quit))
    /\ Looping ~> (done \/ pc \in {"failed", "panicked"})
    /\ <>(pc \in {"returned", "failed", "panicked"} /\ tasks # EmptyBag)

C17_Witness ==
    /\ pc = "returned"
    /\ done
    /\ BagCardinality(tasks) = MaxTasks
    /\ BagIn(FetchLastCommitTask("master"), tasks)
    /\ bus = <<>>

\* C18: the index never loses a branch name, and the commit it holds for a branch
\* changes only when a FetchedBranchCommit for that very branch is applied, to the
\* commit of that event.
C18_IndexGrows ==
    [][/\ DOMAIN branches \subseteq DOMAIN branches'
       /\ \A b \in DOMAIN branches :
             branches'[b] # branches[b] =>
                 /\ handled'.src = "receiver"
                 /\ handled'.event = FetchedBranchCommit(b, branches'[b])]_vars

C18_Witness ==
    /\ handled.src = "receiver"
    /\ handled.event = FetchedBranchCommit("master", "c2")
    /\ handled.over
    /\ branches = [b \in BranchNames |-> IF b = "dev" THEN DefaultString ELSE "c2"]

\* C19: check_status is Failure when some check of the list has verdict Failure,
\* wherever it stands; else Pending when some check is queued or in progress; else
\* Success, the empty list included.  A status context counts as completed.
C19_Rollup ==
    (handled.src = "checks" /\ handled.progress # None) =>
        LET checks == handled.checks
            at == 1..Len(checks)
        IN  /\ handled.progress[1] =
                  IF \E i \in at : verdict(checks[i]) = "Failure" THEN "Failure"
                  ELSE IF \E i \in at : state(checks[i]) \in {"Queued", "InProgress"}
                       THEN "Pending"
                       ELSE "Success"
            /\ \A i \in at :
                  checks[i].typename = "StatusContext" => state(checks[i]) = "Completed"
            /\ (\A i \in at : checks[i].typename = "StatusContext") =>
                  handled.progress[1] # "Pending"

C19_Witness ==
    /\ handled.src = "checks"
    /\ handled.checks = <<CheckRun("Unknown", "Queued"), StatusContext("Failure")>>
    /\ handled.progress = Some("Failure")

\* the fetches of a branch's commit that there are: in flight, on the bus, applied
C20_Fetches ==
    Cardinality({ i \in 1..Len(bus) : bus[i].event.type = "FetchedBranchCommit" })
        + CopiesIn(FetchLastCommitTask("master"), tasks)
        + (IF "master" \in DOMAIN branches THEN 1 ELSE 0)

\* C20: once the loop is entered there is exactly one fetch of a branch's commit,
\* for "master": it is in flight, or its event is on the bus, or its event has been
\* applied, and never two of these.  So the index holds no branch but "master",
\* and a pull request with verdict Ok on another base is shown as Unsynced.
C20_MasterOnly ==
    /\ \A task \in BagToSet(tasks) :
          task.op = "fetch_last_commit" => task = FetchLastCommitTask("master")
    /\ \A i \in 1..Len(bus) :
          bus[i].event.type = "FetchedBranchCommit" => bus[i].event.branch = "master"
    /\ C20_Fetches = (IF pc = "start" THEN 0 ELSE 1)
    /\ DOMAIN branches \subseteq {"master"}
    /\ \A i \in 1..Len(prs) :
          (prs[i].mergeable = "Ok" /\ prs[i].base_name # "master") =>
              table(branches, prs)[i] = "Unsynced"

C20_Witness ==
    /\ pc = "running"
    /\ DOMAIN branches = {"master"}
    /\ branches["master"] = "c2"
    /\ Len(prs) = 2
    /\ prs[2].mergeable = "Ok"
    /\ prs[2].base_name = "dev"
    /\ prs[2].base_commit = "c2"
    /\ table(branches, prs)[2] = "Unsynced"

====
